---------------------------- MODULE Spec2Model ----------------------------
(***************************************************************************)
(* Model of deploy.py: the interactive Packer section of the K3s           *)
(* deployment orchestrator (ConfigManager, PackerManager and               *)
(* DeploymentOrchestrator).                                                *)
(*                                                                         *)
(* Python strings are sequences of one-character strings, so that strip,   *)
(* lower, endswith, int() and str() are computed and not assumed.          *)
(* A scalar value of a configuration document is a tagged record: an int   *)
(* or a str.  A Python object that is a document is a tagged record too:   *)
(* a dict or None.                                                         *)
(***************************************************************************)
EXTENDS Integers, Sequences, FiniteSets, TLC

(***************************************************************************)
(* Bounds of the model.                                                    *)
(***************************************************************************)
\* invalid inputs accepted by one prompt_choice / prompt_yes_no call
MaxAttempts == 1
\* parameters of the wizard that get a non-empty answer
MaxAnswered == 1
\* parameter updates in one editing session
MaxEdits == 2
\* "Return to editing" rounds in one editing session
MaxRounds == 1
\* length of the option lists drawn for the stand-alone prompt_choice runs
MaxChoices == 2

(***************************************************************************)
(* Python str helpers.                                                     *)
(***************************************************************************)
Digits == <<"0", "1", "2", "3", "4", "5", "6", "7", "8", "9">>

Upper == <<"A", "B", "C", "D", "E", "F", "G", "H", "I", "J", "K", "L", "M",
           "N", "O", "P", "Q", "R", "S", "T", "U", "V", "W", "X", "Y", "Z">>

Lower == <<"a", "b", "c", "d", "e", "f", "g", "h", "i", "j", "k", "l", "m",
           "n", "o", "p", "q", "r", "s", "t", "u", "v", "w", "x", "y", "z">>

IsDigit(c) == \E i \in 1..10 : Digits[i] = c

DigitVal(c) == (CHOOSE i \in 1..10 : Digits[i] = c) - 1

IsSpace(c) == c \in {" ", "\t", "\n"}

LowerChar(c) ==
    IF \E i \in 1..26 : Upper[i] = c
    THEN Lower[CHOOSE i \in 1..26 : Upper[i] = c]
    ELSE c

\* str.lower()
StrLower(s) == [i \in 1..Len(s) |-> LowerChar(s[i])]

RECURSIVE LStrip(_)
LStrip(s) == IF s # <<>> /\ IsSpace(Head(s)) THEN LStrip(Tail(s)) ELSE s

RECURSIVE RStrip(_)
RStrip(s) ==
    IF s # <<>> /\ IsSpace(s[Len(s)]) THEN RStrip(SubSeq(s, 1, Len(s) - 1)) ELSE s

\* str.strip()
Strip(s) == RStrip(LStrip(s))

\* str.endswith(suffix)
EndsWith(s, suffix) ==
    /\ Len(s) >= Len(suffix)
    /\ SubSeq(s, Len(s) - Len(suffix) + 1, Len(s)) = suffix

RECURSIVE DigitsValue(_)
DigitsValue(s) ==
    IF s = <<>> THEN 0
    ELSE 10 * DigitsValue(SubSeq(s, 1, Len(s) - 1)) + DigitVal(s[Len(s)])

AllDigits(s) == s # <<>> /\ \A i \in 1..Len(s) : IsDigit(s[i])

\* int(text): surrounding whitespace is ignored, one optional sign, then
\* decimal digits; anything else raises ValueError (ok = FALSE).
ParseInt(text) ==
    LET s == Strip(text)
        signed == s # <<>> /\ Head(s) \in {"+", "-"}
        body == IF signed THEN Tail(s) ELSE s
    IN  IF AllDigits(body)
        THEN [ok |-> TRUE,
              val |-> IF signed /\ Head(s) = "-" THEN 0 - DigitsValue(body)
                      ELSE DigitsValue(body)]
        ELSE [ok |-> FALSE, val |-> 0]

RECURSIVE NatToStr(_)
NatToStr(n) ==
    IF n < 10 THEN <<Digits[n + 1]>>
    ELSE NatToStr(n \div 10) \o <<Digits[(n % 10) + 1]>>

\* str(n) of an int
IntToStr(n) == IF n < 0 THEN <<"-">> \o NatToStr(0 - n) ELSE NatToStr(n)

(***************************************************************************)
(* Values and documents.                                                   *)
(***************************************************************************)
IntV(n) == [t |-> "int", i |-> n, s |-> <<>>]

StrV(s) == [t |-> "str", i |-> 0, s |-> s]

\* str(value) of a scalar of a document
PyStr(v) == IF v.t = "int" THEN IntToStr(v.i) ELSE v.s

EmptyMap == [k \in {} |-> StrV(<<>>)]

DictV(d) == [t |-> "dict", d |-> d]

NoneV == [t |-> "none", d |-> EmptyMap]

\* truth value of a document object: None and {} are false
Truthy(doc) == doc.t = "dict" /\ DOMAIN doc.d # {}

\* d[k] = v on a dict: the key is added when absent, replaced otherwise
SetItem(d, k, v) == [x \in DOMAIN d \cup {k} |-> IF x = k THEN v ELSE d[x]]

(***************************************************************************)
(* String literals of the source, spelled as character sequences.          *)
(***************************************************************************)
K_template_type ==
    <<"t", "e", "m", "p", "l", "a", "t", "e", "_", "t", "y", "p", "e">>

K_template_name ==
    <<"t", "e", "m", "p", "l", "a", "t", "e", "_", "n", "a", "m", "e">>

K_vcenter_host ==
    <<"v", "c", "e", "n", "t", "e", "r", "_", "h", "o", "s", "t">>

K_vcenter_user ==
    <<"v", "c", "e", "n", "t", "e", "r", "_", "u", "s", "e", "r">>

K_vcenter_password ==
    <<"v", "c", "e", "n", "t", "e", "r", "_", "p", "a", "s", "s", "w", "o",
      "r", "d">>

K_vcenter_datacenter ==
    <<"v", "c", "e", "n", "t", "e", "r", "_", "d", "a", "t", "a", "c", "e",
      "n", "t", "e", "r">>

K_vcenter_cluster ==
    <<"v", "c", "e", "n", "t", "e", "r", "_", "c", "l", "u", "s", "t", "e",
      "r">>

K_vcenter_datastore ==
    <<"v", "c", "e", "n", "t", "e", "r", "_", "d", "a", "t", "a", "s", "t",
      "o", "r", "e">>

K_vcenter_network ==
    <<"v", "c", "e", "n", "t", "e", "r", "_", "n", "e", "t", "w", "o", "r",
      "k">>

K_vcenter_folder ==
    <<"v", "c", "e", "n", "t", "e", "r", "_", "f", "o", "l", "d", "e", "r">>

K_iso_datastore ==
    <<"i", "s", "o", "_", "d", "a", "t", "a", "s", "t", "o", "r", "e">>

K_iso_path ==
    <<"i", "s", "o", "_", "p", "a", "t", "h">>

K_cpu_cores ==
    <<"c", "p", "u", "_", "c", "o", "r", "e", "s">>

K_memory_mb ==
    <<"m", "e", "m", "o", "r", "y", "_", "m", "b">>

K_disk_size_gb ==
    <<"d", "i", "s", "k", "_", "s", "i", "z", "e", "_", "g", "b">>

K_additional_disk_size_gb ==
    <<"a", "d", "d", "i", "t", "i", "o", "n", "a", "l", "_", "d", "i", "s",
      "k", "_", "s", "i", "z", "e", "_", "g", "b">>

K_selected_template ==
    <<"s", "e", "l", "e", "c", "t", "e", "d", "_", "t", "e", "m", "p", "l",
      "a", "t", "e">>

S_done ==
    <<"d", "o", "n", "e">>

S_y ==
    <<"y">>

S_yes ==
    <<"y", "e", "s">>

S_n ==
    <<"n">>

S_no ==
    <<"n", "o">>

S_mb ==
    <<"_", "m", "b">>

S_gb ==
    <<"_", "g", "b">>

S_k3s_node ==
    <<"k", "3", "s", "-", "n", "o", "d", "e">>

S_nfs_server ==
    <<"n", "f", "s", "-", "s", "e", "r", "v", "e", "r">>

\* the default paths, written relative to base_dir
DefaultYaml ==
    <<"c", "o", "n", "f", "i", "g", "/", "d", "e", "f", "a", "u", "l", "t",
      ".", "y", "a", "m", "l">>

CustomYaml ==
    <<"c", "o", "n", "f", "i", "g", "/", "c", "u", "s", "t", "o", "m", "-",
      "c", "o", "n", "f", "i", "g", ".", "y", "a", "m", "l">>

O_create_new_template ==
    <<"C", "r", "e", "a", "t", "e", " ", "n", "e", "w", " ", "t", "e", "m",
      "p", "l", "a", "t", "e">>

O_create_new_configuration ==
    <<"C", "r", "e", "a", "t", "e", " ", "n", "e", "w", " ", "c", "o", "n",
      "f", "i", "g", "u", "r", "a", "t", "i", "o", "n">>

O_use_existing_template ==
    <<"U", "s", "e", " ", "e", "x", "i", "s", "t", "i", "n", "g", " ", "t",
      "e", "m", "p", "l", "a", "t", "e">>

O_write_changes ==
    <<"W", "r", "i", "t", "e", " ", "c", "h", "a", "n", "g", "e", "s", " ",
      "t", "o", " ", "c", "o", "n", "f", "i", "g", " ", "p", "e", "r", "m",
      "a", "n", "e", "n", "t", "l", "y">>

O_use_changes ==
    <<"U", "s", "e", " ", "c", "h", "a", "n", "g", "e", "s", " ", "o", "n",
      "l", "y", " ", "f", "o", "r", " ", "t", "h", "i", "s", " ", "r", "u",
      "n">>

O_return_to_editing ==
    <<"R", "e", "t", "u", "r", "n", " ", "t", "o", " ", "e", "d", "i", "t",
      "i", "n", "g">>

O_discard_changes ==
    <<"D", "i", "s", "c", "a", "r", "d", " ", "c", "h", "a", "n", "g", "e",
      "s">>

S_json ==
    <<".", "j", "s", "o", "n">>

(***************************************************************************)
(* ConfigManager: the prompt primitives.  Each operator is one pass of     *)
(* the primitive over one line read from standard input.                   *)
(***************************************************************************)
\* prompt_yes_no, one iteration of its loop: the answer, or no return
PromptYesNo(inp) ==
    LET response == Strip(StrLower(inp))
    IN  IF response \in {S_y, S_yes} THEN [returned |-> TRUE, value |-> TRUE]
        ELSE IF response \in {S_n, S_no} THEN [returned |-> TRUE, value |-> FALSE]
        ELSE [returned |-> FALSE, value |-> FALSE]

\* faulty variant: the range test starts at 0, and choices[0 - 1] is the last element
PromptChoiceFromZero(options, inp) ==
    LET selection == ParseInt(inp)
    IN  IF selection.ok /\ 0 <= selection.val /\ selection.val <= Len(options)
           /\ options # <<>>
        THEN [returned |-> TRUE,
              value |-> options[IF selection.val = 0 THEN Len(options)
                                ELSE selection.val]]
        ELSE [returned |-> FALSE, value |-> <<>>]

\* prompt_choice, one iteration of its loop: the chosen element, or no
\* return (ValueError of int(), or a number outside 1..len(choices))
PromptChoice(options, inp) ==
    LET selection == ParseInt(inp)
    IN  IF selection.ok /\ 1 <= selection.val /\ selection.val <= Len(options)
        THEN [returned |-> TRUE, value |-> options[selection.val]]
        ELSE [returned |-> FALSE, value |-> <<>>]

\* Optional[str]: None, or a string
NoneStr == [none |-> TRUE, s |-> <<>>]

SomeStr(s) == [none |-> FALSE, s |-> s]

\* default or "": None and the empty string are both false
DefaultOrEmpty(default) ==
    IF default.none \/ default.s = <<>> THEN <<>> ELSE default.s

\* faulty variant: the line is not stripped before it is tested and returned
PromptValueUnstripped(inp, default) ==
    IF inp # <<>> THEN inp ELSE DefaultOrEmpty(default)

\* prompt_value: value if value else default or ""
PromptValue(inp, default) ==
    LET value == Strip(inp)
    IN  IF value # <<>> THEN value ELSE DefaultOrEmpty(default)

\* the default of a call that passes none
NoDefault == NoneStr

(***************************************************************************)
(* PackerManager.                                                          *)
(***************************************************************************)
base_params ==
    << [param |-> K_template_name, description |-> "Name for the VM template"],
       [param |-> K_vcenter_host, description |-> "vCenter host FQDN"],
       [param |-> K_vcenter_user, description |-> "vCenter username"],
       [param |-> K_vcenter_password, description |-> "vCenter password"],
       [param |-> K_vcenter_datacenter, description |-> "vCenter datacenter name"],
       [param |-> K_vcenter_cluster, description |-> "vCenter cluster name"],
       [param |-> K_vcenter_datastore, description |-> "vCenter datastore for OS disk"],
       [param |-> K_vcenter_network, description |-> "vCenter network name"],
       [param |-> K_vcenter_folder, description |-> "vCenter folder path"],
       [param |-> K_iso_datastore, description |-> "Datastore containing ISO"],
       [param |-> K_iso_path, description |-> "Path to Debian ISO file"],
       [param |-> K_cpu_cores, description |-> "Number of CPU cores (default: 2)"],
       [param |-> K_memory_mb, description |-> "Memory in MB (default: 4096)"],
       [param |-> K_disk_size_gb, description |-> "OS disk size in GB (default: 40)"] >>

\* faulty variant: the extra entry is added whatever the template type
GetRequiredParametersAlways(template_type) ==
    Append(base_params,
           [param |-> K_additional_disk_size_gb,
            description |-> "Additional storage disk size in GB (for NFS)"])

\* get_required_parameters: the catalog as the list of its items, in order
GetRequiredParameters(template_type) ==
    IF template_type = S_nfs_server
    THEN Append(base_params,
                [param |-> K_additional_disk_size_gb,
                 description |-> "Additional storage disk size in GB (for NFS)"])
    ELSE base_params

ParamNames(params) == {params[i].param : i \in 1..Len(params)}

\* Path.stem of a file name: the name without its last suffix
Stem(name) ==
    LET dots == {i \in 2..Len(name) : name[i] = "."}
    IN  IF dots = {} THEN name
        ELSE SubSeq(name, 1, (CHOOSE i \in dots : \A j \in dots : j <= i) - 1)

\* the orders in which a directory can enumerate the set of names
Listings(names) ==
    {l \in [1..Cardinality(names) -> names] :
        \A i, j \in 1..Cardinality(names) : i # j => l[i] # l[j]}

\* faulty variant: glob("*") instead of glob("*.json")
GetAllFiles(dir) ==
    IF ~dir.exists THEN {<<>>}
    ELSE {[i \in 1..Len(l) |-> Stem(l[i])] : l \in Listings(dir.files)}

\* get_available_templates: the lists it can return for a templates
\* directory, one per enumeration order of glob("*.json")
GetAvailableTemplates(dir) ==
    IF ~dir.exists THEN {<<>>}
    ELSE {[i \in 1..Len(l) |-> Stem(l[i])] :
            l \in Listings({f \in dir.files : EndsWith(f, S_json)})}

(***************************************************************************)
(* YAML documents on disk.  A file is absent, malformed (yaml.YAMLError),  *)
(* blank (safe_load gives None) or a mapping of keys to scalar tokens.     *)
(* yaml.dump writes an int bare and quotes a str that would otherwise be   *)
(* read back as an int; safe_load reads a bare integer token as an int.    *)
(***************************************************************************)
YamlIsInt(s) ==
    LET signed == s # <<>> /\ Head(s) \in {"+", "-"}
        body == IF signed THEN Tail(s) ELSE s
    IN  AllDigits(body) /\ (Head(body) # "0" \/ Len(body) = 1)

YamlDumpScalar(v) ==
    IF v.t = "int" THEN [quoted |-> FALSE, text |-> IntToStr(v.i)]
    ELSE [quoted |-> (v.s = <<>> \/ YamlIsInt(v.s)), text |-> v.s]

YamlLoadScalar(tok) ==
    IF ~tok.quoted /\ YamlIsInt(tok.text) THEN IntV(ParseInt(tok.text).val)
    ELSE StrV(tok.text)

NoEntries == [k \in {} |-> [quoted |-> FALSE, text |-> <<>>]]

AbsentFile == [kind |-> "absent", entries |-> NoEntries]

MalformedFile == [kind |-> "malformed", entries |-> NoEntries]

BlankFile == [kind |-> "blank", entries |-> NoEntries]

MappingFile(entries) == [kind |-> "mapping", entries |-> entries]

\* Path.exists()
Exists(fs, path) == path \in DOMAIN fs /\ fs[path].kind # "absent"

\* faulty variant: load_config without its "except yaml.YAMLError" clause
LoadConfigUncaught(fs, path) ==
    IF ~Exists(fs, path) THEN [raised |-> FALSE, value |-> DictV(EmptyMap)]
    ELSE IF fs[path].kind = "malformed" THEN [raised |-> TRUE, value |-> NoneV]
    ELSE IF fs[path].kind = "blank" THEN [raised |-> FALSE, value |-> NoneV]
    ELSE [raised |-> FALSE,
          value |-> DictV([k \in DOMAIN fs[path].entries |->
                              YamlLoadScalar(fs[path].entries[k])])]

\* load_config: the object returned, or the exception that escapes it.
\* FileNotFoundError and yaml.YAMLError are caught and give {}.
LoadConfig(fs, path) ==
    IF ~Exists(fs, path) THEN [raised |-> FALSE, value |-> DictV(EmptyMap)]
    ELSE IF fs[path].kind = "malformed"
    THEN [raised |-> FALSE, value |-> DictV(EmptyMap)]
    ELSE IF fs[path].kind = "blank" THEN [raised |-> FALSE, value |-> NoneV]
    ELSE [raised |-> FALSE,
          value |-> DictV([k \in DOMAIN fs[path].entries |->
                              YamlLoadScalar(fs[path].entries[k])])]

\* save_config: the value returned and the file system left behind;
\* io_ok is whether mkdir and open succeed
SaveConfig(fs, cfg, path, io_ok) ==
    IF io_ok
    THEN [ok |-> TRUE,
          fs |-> [fs EXCEPT ![path] =
                     MappingFile([k \in DOMAIN cfg |-> YamlDumpScalar(cfg[k])])]]
    ELSE [ok |-> FALSE, fs |-> fs]

(***************************************************************************)
(* Messages of the prompts.                                                *)
(***************************************************************************)
M_menu == "What would you like to do?"

M_existing_path == "Enter configuration file path"

M_new_path == "Enter path where to save the configuration"

M_modify == "Do you want to modify any parameters?"

M_save == "Save this configuration?"

M_template_type == "Select template type"

M_decision == "What would you like to do with these changes?"

M_select_template == "Select template to use"

M_proceed == "Proceed with Packer template creation?"

M_terraform == "Proceed to Terraform section?"

YesNoMessages == {M_modify, M_save, M_proceed, M_terraform}

Messages ==
    YesNoMessages \cup
    {M_menu, M_existing_path, M_new_path, M_template_type, M_decision,
     M_select_template}

MenuChoices ==
    <<O_create_new_template, O_create_new_configuration, O_use_existing_template>>

TemplateTypes == <<S_k3s_node, S_nfs_server>>

DecisionChoices ==
    <<O_write_changes, O_use_changes, O_return_to_editing, O_discard_changes>>

(***************************************************************************)
(* The lines the user can type, and the environments a run can start in.   *)
(***************************************************************************)
OtherYaml == <<"o", ".", "y", "a", "m", "l">>

YesNoInputs ==
    {S_y, <<"Y", "E", "S">>, <<" ", "n", " ">>, S_no, <<"x">>, <<>>}

ChoiceInputs ==
    {<<"1">>, <<" ", "2">>, <<"+", "3">>, <<"4">>, <<"5">>, <<"0">>,
     <<"-", "1">>, <<"x">>, <<"1", ".", "0">>, <<>>}

PathInputs == {<<>>, OtherYaml, <<" ">> \o OtherYaml \o <<" ">>}

ValueInputs == {<<>>, <<" ">>, <<"8">>, <<"4", "G", "B">>}

NameInputs ==
    {K_memory_mb, K_template_name \o <<" ">>, <<"n", "o", "k", "e", "y">>,
     S_done, <<"D", "o", "n", "e">>, <<>>}

Doc1 ==
    (K_template_type :> [quoted |-> FALSE, text |-> S_k3s_node]) @@
    (K_template_name :> [quoted |-> FALSE, text |-> <<"w", "e", "b">>]) @@
    (K_memory_mb :> [quoted |-> FALSE, text |-> <<"4", "0", "9", "6">>])

Doc2 ==
    (S_done :> [quoted |-> FALSE, text |-> <<"x">>]) @@
    (K_memory_mb :> [quoted |-> TRUE, text |-> <<"2">>])

FileSystem(default, other) ==
    (DefaultYaml :> default) @@ (OtherYaml :> other) @@ (CustomYaml :> AbsentFile)

F_a_json == <<"a", ".", "j", "s", "o", "n">>

F_b_json == <<"b", ".", "j", "s", "o", "n">>

F_notes_txt == <<"n", "o", "t", "e", "s", ".", "t", "x", "t">>

Environments ==
    { [fs |-> FileSystem(MappingFile(Doc1), MappingFile(Doc2)),
       dir |-> [exists |-> FALSE, files |-> {}]],
      [fs |-> FileSystem(AbsentFile, MalformedFile),
       dir |-> [exists |-> TRUE, files |-> {F_a_json, F_b_json, F_notes_txt}]],
      [fs |-> FileSystem(BlankFile, MappingFile(Doc1)),
       dir |-> [exists |-> TRUE, files |-> {F_notes_txt}]],
      [fs |-> FileSystem(MalformedFile, AbsentFile),
       dir |-> [exists |-> TRUE, files |-> {F_a_json}]] }

(***************************************************************************)
(* State.                                                                  *)
(***************************************************************************)
VARIABLES
    pc,               \* the input() call the run is blocked at, or "done"
    disk,             \* the configuration files
    templates_dir,    \* PackerManager.templates_dir
    config,           \* the local document being built or edited
    config_path,      \* local of _create_from_existing_config
    save_path,        \* local of _create_new_config
    current_config,   \* DeploymentOrchestrator.current_config
    choices,          \* the list the pending prompt_choice offers
    attempts,         \* invalid lines the pending prompt has read
    selection,        \* what the last prompt_choice returned
    params,           \* local of _gather_template_parameters
    param_i,          \* position of its for loop in params
    param_to_edit,    \* local of _handle_parameter_changes
    result,           \* what packer_section returned
    report,           \* the header run() printed last
    edits,            \* history: parameter updates of the session
    rounds,           \* history: recursive re-entries of the editing loop
    asked,            \* history: calls of each prompt, by message
    answers,          \* history: what each yes/no prompt returned
    wizard_asked,     \* history: the parameters the wizard prompted for
    buildRuns,        \* history: executions of the build step
    saveCalls,        \* history: calls of save_config
    lastSaveOk,       \* history: what the last save_config returned
    displayed,        \* history: print_config was called
    route,            \* history: the call site of _proceed_with_packer_build
    loaded,           \* history: what load_config returned first
    entered,          \* history: the non-empty values typed, by key
    disk0,            \* history: the files when the run started
    last_input,       \* history: the line a stand-alone prompt read last
    default_arg,      \* the default a stand-alone prompt_value was given
    prompt_result     \* what a stand-alone prompt_value returned

vars ==
    <<pc, disk, templates_dir, config, config_path, save_path, current_config,
      choices, attempts, selection, params, param_i, param_to_edit, result,
      report, edits, rounds, asked, answers, wizard_asked, buildRuns,
      saveCalls, lastSaveOk, displayed, route, loaded, entered, disk0,
      last_input, default_arg, prompt_result>>

NoKeys == [k \in {} |-> <<>>]

BlankPrompt(start, options, default, fs, dir) ==
    /\ pc = start
    /\ disk = fs
    /\ templates_dir = dir
    /\ config = DictV(EmptyMap)
    /\ config_path = <<>>
    /\ save_path = <<>>
    /\ current_config = DictV(EmptyMap)
    /\ choices = options
    /\ attempts = 0
    /\ selection = <<>>
    /\ params = <<>>
    /\ param_i = 0
    /\ param_to_edit = <<>>
    /\ result = "pending"
    /\ report = "none"
    /\ edits = 0
    /\ rounds = 0
    /\ asked = [m \in Messages |-> IF m = M_menu /\ start = "menu" THEN 1 ELSE 0]
    /\ answers = [m \in YesNoMessages |-> <<>>]
    /\ wizard_asked = <<>>
    /\ buildRuns = 0
    /\ saveCalls = 0
    /\ lastSaveOk = TRUE
    /\ displayed = FALSE
    /\ route = "none"
    /\ loaded = DictV(EmptyMap)
    /\ entered = NoKeys
    /\ disk0 = fs
    /\ last_input = <<>>
    /\ default_arg = default
    /\ prompt_result = <<>>

Blank(start, options, fs, dir) == BlankPrompt(start, options, NoDefault, fs, dir)

\* DeploymentOrchestrator.__init__, run() and packer_section() up to the
\* first line read: the menu is on the screen
Init == \E e \in Environments : Blank("menu", MenuChoices, e.fs, e.dir)

(***************************************************************************)
(* Steps shared by the handlers.                                           *)
(***************************************************************************)
locals == <<config, config_path, save_path, params, param_i, param_to_edit>>

hist ==
    <<edits, rounds, wizard_asked, buildRuns, saveCalls, lastSaveOk,
      displayed, loaded, entered>>

env == <<templates_dir, disk0, last_input, default_arg, prompt_result>>

Ask(m) == [asked EXCEPT ![m] = @ + 1]

Answer(m, v) == [answers EXCEPT ![m] = Append(@, v)]

\* an invalid line: the prompt's loop goes round and reads again
Retry ==
    /\ attempts < MaxAttempts
    /\ attempts' = attempts + 1
    /\ UNCHANGED <<pc, disk, current_config, choices, selection, result,
                   report, asked, answers, route, locals, hist, env>>

\* faulty variant: run() tests "is not None" instead of the truth value
RunReportNotNone(value) == IF value # "None" THEN "COMPLETED" ELSE "CANCELLED"

\* run(): the header printed for what packer_section returned; None is
\* as false as False
RunReport(value) == IF value = "True" THEN "COMPLETED" ELSE "CANCELLED"

\* packer_section returns value to run(), which prints its report
Return(value) ==
    /\ pc' = "done"
    /\ result' = value
    /\ report' = RunReport(value)
    /\ choices' = <<>>
    /\ attempts' = 0

\* an exception escapes to main(): fatal error, exit code 1
Fatal ==
    /\ pc' = "done"
    /\ result' = "raised"
    /\ report' = "FATAL"
    /\ choices' = <<>>
    /\ attempts' = 0

\* the next line is read by the prompt at position next
Goto(next, options) ==
    /\ pc' = next
    /\ choices' = options
    /\ attempts' = 0
    /\ UNCHANGED <<result, report>>

\* _proceed_with_packer_build up to its first prompt
ProceedWithPackerBuild(cfg, via) ==
    /\ current_config' = cfg
    /\ route' = via
    /\ asked' = Ask(M_proceed)
    /\ Goto("proceed_prompt", <<>>)

(***************************************************************************)
(* packer_section: the menu.                                               *)
(***************************************************************************)
PackerSection(inp) ==
    /\ pc = "menu"
    /\ LET r == PromptChoice(choices, inp)
       IN  IF ~r.returned THEN Retry
           ELSE /\ selection' = r.value
                /\ UNCHANGED <<disk, current_config, answers, route, locals,
                               hist, env>>
                /\ IF r.value = O_create_new_template
                   THEN /\ asked' = Ask(M_existing_path)
                        /\ Goto("existing_path", <<>>)
                   ELSE IF r.value = O_create_new_configuration
                   THEN /\ asked' = Ask(M_new_path)
                        /\ Goto("new_path", <<>>)
                   ELSE IF r.value = O_use_existing_template
                   THEN \E available \in GetAvailableTemplates(templates_dir) :
                            IF available = <<>>
                            THEN Return("False") /\ UNCHANGED asked
                            ELSE /\ asked' = Ask(M_select_template)
                                 /\ Goto("template_choice", available)
                   ELSE Return("None") /\ UNCHANGED asked

(***************************************************************************)
(* _create_from_existing_config.                                           *)
(***************************************************************************)
CreateFromExistingConfig(inp) ==
    /\ pc = "existing_path"
    /\ LET path == PromptValue(inp, SomeStr(DefaultYaml))
           got == LoadConfig(disk, path)
       IN  /\ config_path' = path
           /\ UNCHANGED <<disk, current_config, selection, answers, route,
                          save_path, params, param_i, param_to_edit, edits,
                          rounds, wizard_asked, buildRuns, saveCalls,
                          lastSaveOk, entered, env>>
           /\ IF ~Exists(disk, path)
              THEN Return("False") /\ UNCHANGED <<asked, config, loaded, displayed>>
              ELSE IF got.raised
              THEN Fatal /\ UNCHANGED <<asked, config, loaded, displayed>>
              ELSE IF ~Truthy(got.value)
              THEN /\ Return("False")
                   /\ loaded' = got.value
                   /\ UNCHANGED <<asked, config, displayed>>
              ELSE /\ config' = got.value
                   /\ loaded' = got.value
                   /\ displayed' = TRUE
                   /\ asked' = Ask(M_modify)
                   /\ Goto("modify_prompt", <<>>)

ModifyPrompt(inp) ==
    /\ pc = "modify_prompt"
    /\ LET r == PromptYesNo(inp)
       IN  IF ~r.returned THEN Retry
           ELSE /\ answers' = Answer(M_modify, r.value)
                /\ UNCHANGED <<disk, selection, locals, hist, env>>
                /\ IF ~r.value
                   THEN ProceedWithPackerBuild(config, "unmodified")
                   ELSE /\ Goto("edit_name", <<>>)
                        /\ UNCHANGED <<current_config, route, asked>>

(***************************************************************************)
(* _handle_parameter_changes.                                              *)
(***************************************************************************)
\* config[param_to_edit] = new_value
EditStore(param, new_value) == StrV(new_value)

\* faulty variant: 'done' is tested after the lookup, so a key of that name
\* is found first
EndsEditingAfterLookup(cfg, param) ==
    StrLower(param) = S_done /\ param \notin DOMAIN cfg.d

\* param_to_edit.lower() == 'done', tested before config is looked at
EndsEditing(cfg, param) == StrLower(param) = S_done

EditName(inp) ==
    /\ pc = "edit_name"
    /\ LET param == PromptValue(inp, NoDefault)
       IN  /\ param_to_edit' = param
           /\ UNCHANGED <<disk, current_config, selection, answers, route,
                          config, config_path, save_path, params, param_i,
                          hist, env>>
           /\ IF EndsEditing(config, param)
              THEN /\ asked' = Ask(M_decision)
                   /\ Goto("decision", DecisionChoices)
              ELSE IF param \in DOMAIN config.d
              THEN /\ edits < MaxEdits
                   /\ Goto("edit_value", <<>>)
                   /\ UNCHANGED asked
              ELSE UNCHANGED <<pc, choices, attempts, result, report, asked>>

EditValue(inp) ==
    /\ pc = "edit_value"
    /\ LET new_value == PromptValue(inp, SomeStr(PyStr(config.d[param_to_edit])))
       IN  /\ config' = DictV(SetItem(config.d, param_to_edit,
                                      EditStore(param_to_edit, new_value)))
           /\ entered' = IF Strip(inp) # <<>>
                         THEN SetItem(entered, param_to_edit, Strip(inp))
                         ELSE entered
           /\ edits' = edits + 1
           /\ Goto("edit_name", <<>>)
           /\ UNCHANGED <<disk, current_config, selection, asked, answers,
                          route, config_path, save_path, params, param_i,
                          param_to_edit, rounds, wizard_asked, buildRuns,
                          saveCalls, lastSaveOk, displayed, loaded, env>>

\* faulty variant: "Use changes only for this run" saves as well
DecisionSavesAlso(decision) == decision \in {O_write_changes, O_use_changes}

\* the decision that makes the editing loop call save_config
DecisionSaves(decision) == decision = O_write_changes

\* faulty variant: "Discard changes" proceeds with the edited document
DiscardKeepsEdits(fs, cfg, path) == [raised |-> FALSE, value |-> cfg]

\* the configuration "Discard changes" hands to the build confirmation
DiscardedConfig(fs, cfg, path) == LoadConfig(fs, path)

Decision(inp) ==
    /\ pc = "decision"
    /\ LET r == PromptChoice(choices, inp)
       IN  IF ~r.returned THEN Retry
           ELSE /\ selection' = r.value
                /\ UNCHANGED <<answers, locals, edits, wizard_asked, buildRuns,
                               displayed, loaded, entered, env>>
                /\ IF DecisionSaves(r.value)
                   THEN \E io_ok \in BOOLEAN :
                          LET s == SaveConfig(disk, config.d, config_path, io_ok)
                          IN  /\ disk' = s.fs
                              /\ saveCalls' = saveCalls + 1
                              /\ lastSaveOk' = s.ok
                              /\ UNCHANGED rounds
                              /\ IF s.ok
                                 THEN ProceedWithPackerBuild(config, "written")
                                 ELSE /\ Return("None")
                                      /\ UNCHANGED <<current_config, route, asked>>
                   ELSE IF r.value = O_use_changes
                   THEN /\ ProceedWithPackerBuild(config, "run")
                        /\ UNCHANGED <<disk, saveCalls, lastSaveOk, rounds>>
                   ELSE IF r.value = O_return_to_editing
                   THEN /\ rounds < MaxRounds
                        /\ rounds' = rounds + 1
                        /\ Goto("edit_name", <<>>)
                        /\ UNCHANGED <<disk, saveCalls, lastSaveOk,
                                       current_config, route, asked>>
                   ELSE LET original == DiscardedConfig(disk, config, config_path)
                        IN  /\ UNCHANGED <<disk, saveCalls, lastSaveOk, rounds>>
                            /\ IF original.raised
                               THEN Fatal /\ UNCHANGED <<current_config, route, asked>>
                               ELSE ProceedWithPackerBuild(original.value, "discard")

(***************************************************************************)
(* _proceed_with_packer_build.                                             *)
(***************************************************************************)
\* faulty variant: the final "return True" outside its if
TerraformResultAlways(proceed) == "True"

\* what _proceed_with_packer_build returns after the build step
TerraformResult(proceed) == IF proceed THEN "True" ELSE "False"

ProceedPrompt(inp) ==
    /\ pc = "proceed_prompt"
    /\ LET r == PromptYesNo(inp)
       IN  IF ~r.returned THEN Retry
           ELSE /\ answers' = Answer(M_proceed, r.value)
                /\ UNCHANGED <<disk, current_config, selection, route, locals,
                               edits, rounds, wizard_asked, saveCalls,
                               lastSaveOk, displayed, loaded, entered, env>>
                /\ IF r.value
                   THEN /\ buildRuns' = buildRuns + 1
                        /\ asked' = Ask(M_terraform)
                        /\ Goto("terraform_prompt", <<>>)
                   ELSE /\ Return("False")
                        /\ UNCHANGED <<buildRuns, asked>>

TerraformPrompt(inp) ==
    /\ pc = "terraform_prompt"
    /\ LET r == PromptYesNo(inp)
       IN  IF ~r.returned THEN Retry
           ELSE /\ answers' = Answer(M_terraform, r.value)
                /\ Return(TerraformResult(r.value))
                /\ UNCHANGED <<disk, current_config, selection, asked, route,
                               locals, hist, env>>

(***************************************************************************)
(* _create_new_config and _gather_template_parameters.                     *)
(***************************************************************************)
\* the keys whose values the wizard tries to convert
IsNumericParam(param) ==
    EndsWith(param, S_mb) \/ EndsWith(param, S_gb) \/ param = K_cpu_cores

\* the value the wizard stores for a non-empty answer
WizardStore(param, value) ==
    IF IsNumericParam(param)
    THEN IF ParseInt(value).ok THEN IntV(ParseInt(value).val) ELSE StrV(value)
    ELSE StrV(value)

CreateNewConfig(inp) ==
    /\ pc = "new_path"
    /\ save_path' = PromptValue(inp, SomeStr(CustomYaml))
    /\ config' = DictV(EmptyMap)
    /\ asked' = Ask(M_template_type)
    /\ Goto("template_type", TemplateTypes)
    /\ UNCHANGED <<disk, current_config, selection, answers, route,
                   config_path, params, param_i, param_to_edit, hist, env>>

GatherTemplateType(inp) ==
    /\ pc = "template_type"
    /\ LET r == PromptChoice(choices, inp)
       IN  IF ~r.returned THEN Retry
           ELSE /\ selection' = r.value
                /\ config' = DictV(SetItem(config.d, K_template_type, StrV(r.value)))
                /\ params' = GetRequiredParameters(r.value)
                /\ param_i' = 1
                /\ Goto("parameter", <<>>)
                /\ UNCHANGED <<disk, current_config, asked, answers, route,
                               config_path, save_path, param_to_edit, hist, env>>

GatherParameter(inp) ==
    /\ pc = "parameter"
    /\ LET param == params[param_i].param
           value == PromptValue(inp, NoDefault)
           cfg == IF value # <<>>
                  THEN DictV(SetItem(config.d, param, WizardStore(param, value)))
                  ELSE config
       IN  /\ value # <<>> => Cardinality(DOMAIN entered) < MaxAnswered
           /\ config' = cfg
           /\ entered' = IF value # <<>> THEN SetItem(entered, param, value)
                         ELSE entered
           /\ wizard_asked' = Append(wizard_asked, param)
           /\ UNCHANGED <<disk, current_config, selection, answers, route,
                          config_path, save_path, params, param_to_edit,
                          edits, rounds, buildRuns, saveCalls, lastSaveOk,
                          loaded, env>>
           /\ IF param_i < Len(params)
              THEN /\ param_i' = param_i + 1
                   /\ UNCHANGED <<pc, choices, attempts, result, report,
                                  asked, displayed>>
              ELSE /\ param_i' = param_i
                   /\ IF ~Truthy(cfg)
                      THEN Return("False") /\ UNCHANGED <<asked, displayed>>
                      ELSE /\ displayed' = TRUE
                           /\ asked' = Ask(M_save)
                           /\ Goto("save_prompt", <<>>)

SavePrompt(inp) ==
    /\ pc = "save_prompt"
    /\ LET r == PromptYesNo(inp)
       IN  IF ~r.returned THEN Retry
           ELSE /\ answers' = Answer(M_save, r.value)
                /\ UNCHANGED <<selection, locals, edits, rounds, wizard_asked,
                               buildRuns, displayed, loaded, entered, env>>
                /\ IF r.value
                   THEN \E io_ok \in BOOLEAN :
                          LET s == SaveConfig(disk, config.d, save_path, io_ok)
                          IN  /\ disk' = s.fs
                              /\ saveCalls' = saveCalls + 1
                              /\ lastSaveOk' = s.ok
                              /\ IF s.ok
                                 THEN ProceedWithPackerBuild(config, "new")
                                 ELSE /\ Return("False")
                                      /\ UNCHANGED <<current_config, route, asked>>
                   ELSE /\ Return("False")
                        /\ UNCHANGED <<disk, current_config, route, asked,
                                       saveCalls, lastSaveOk>>

(***************************************************************************)
(* _use_existing_template.                                                 *)
(***************************************************************************)
UseExistingTemplate(inp) ==
    /\ pc = "template_choice"
    /\ LET r == PromptChoice(choices, inp)
       IN  IF ~r.returned THEN Retry
           ELSE /\ selection' = r.value
                /\ current_config' =
                       DictV(SetItem(current_config.d, K_selected_template,
                                     StrV(r.value)))
                /\ route' = "template"
                /\ asked' = Ask(M_terraform)
                /\ Goto("template_terraform", <<>>)
                /\ UNCHANGED <<disk, answers, locals, hist, env>>

TemplateTerraform(inp) ==
    /\ pc = "template_terraform"
    /\ LET r == PromptYesNo(inp)
       IN  IF ~r.returned THEN Retry
           ELSE /\ answers' = Answer(M_terraform, r.value)
                /\ Return(IF r.value THEN "True" ELSE "False")
                /\ UNCHANGED <<disk, current_config, selection, asked, route,
                               locals, hist, env>>

(***************************************************************************)
(* The run of the orchestrator.                                            *)
(***************************************************************************)
Next ==
    \/ \E inp \in ChoiceInputs : PackerSection(inp)
    \/ \E inp \in PathInputs : CreateFromExistingConfig(inp)
    \/ \E inp \in YesNoInputs : ModifyPrompt(inp)
    \/ \E inp \in NameInputs : EditName(inp)
    \/ \E inp \in ValueInputs : EditValue(inp)
    \/ \E inp \in ChoiceInputs : Decision(inp)
    \/ \E inp \in YesNoInputs : ProceedPrompt(inp)
    \/ \E inp \in YesNoInputs : TerraformPrompt(inp)
    \/ \E inp \in PathInputs : CreateNewConfig(inp)
    \/ \E inp \in ChoiceInputs : GatherTemplateType(inp)
    \/ \E inp \in ValueInputs : GatherParameter(inp)
    \/ \E inp \in YesNoInputs : SavePrompt(inp)
    \/ \E inp \in ChoiceInputs : UseExistingTemplate(inp)
    \/ \E inp \in YesNoInputs : TemplateTerraform(inp)

Spec == Init /\ [][Next]_vars

(***************************************************************************)
(* prompt_choice on its own: any option list, any sequence of lines.       *)
(***************************************************************************)
ChoicePool == {<<"a">>, <<"b">>, <<"c">>}

OptionLists ==
    UNION {[1..n -> ChoicePool] : n \in 0..MaxChoices}

InitChoice ==
    \E options \in OptionLists :
        Blank("choice_call", options,
              FileSystem(AbsentFile, AbsentFile),
              [exists |-> FALSE, files |-> {}])

PromptChoiceCall(inp) ==
    /\ pc = "choice_call"
    /\ LET r == PromptChoice(choices, inp)
       IN  /\ last_input' = inp
           /\ IF r.returned
              THEN /\ selection' = r.value
                   /\ pc' = "choice_returned"
                   /\ UNCHANGED attempts
              ELSE /\ attempts < MaxAttempts
                   /\ attempts' = attempts + 1
                   /\ UNCHANGED <<pc, selection>>
           /\ UNCHANGED <<disk, current_config, choices, result, report,
                          asked, answers, route, locals, hist, templates_dir,
                          disk0, default_arg, prompt_result>>

NextChoice == \E inp \in ChoiceInputs : PromptChoiceCall(inp)

SpecChoice == InitChoice /\ [][NextChoice]_vars

(***************************************************************************)
(* prompt_value on its own: any default, any line.                         *)
(***************************************************************************)
\* the lines read: white space around a core, which may hold a space itself
Margins == {<<>>, <<" ">>, <<"\t">>, <<"\n">>}

Cores == {<<>>, <<"a">>, <<"a", " ", "b">>, <<"8">>, <<"d">>}

LineInputs == {l \o c \o r : l \in Margins, c \in Cores, r \in Margins}

DefaultArgs ==
    {NoneStr, SomeStr(<<>>), SomeStr(<<"d">>), SomeStr(<<"a", " ", "b">>)}

InitValue ==
    \E default \in DefaultArgs :
        BlankPrompt("value_call", <<>>, default,
                    FileSystem(AbsentFile, AbsentFile),
                    [exists |-> FALSE, files |-> {}])

PromptValueCall(inp) ==
    /\ pc = "value_call"
    /\ last_input' = inp
    /\ prompt_result' = PromptValue(inp, default_arg)
    /\ pc' = "value_returned"
    /\ UNCHANGED <<disk, current_config, choices, attempts, selection, result,
                   report, asked, answers, route, locals, hist, templates_dir,
                   disk0, default_arg>>

NextValue == \E inp \in LineInputs : PromptValueCall(inp)

SpecValue == InitValue /\ [][NextValue]_vars

(***************************************************************************)
(* Properties.                                                             *)
(***************************************************************************)
Declined(m) == \E i \in 1..Len(answers[m]) : ~answers[m][i]

\* in every state: what a run that has built has asked and answered
C1_BuildState ==
    /\ buildRuns <= 1
    /\ buildRuns = 1 =>
          /\ answers[M_proceed] = <<TRUE>>
          /\ asked[M_terraform] = 1
          /\ pc \in {"terraform_prompt", "done"}
    /\ (buildRuns = 1 /\ pc = "done") =>
          /\ Len(answers[M_terraform]) = 1
          /\ report \in {"COMPLETED", "CANCELLED"}
          /\ report = "COMPLETED" <=> answers[M_terraform] = <<TRUE>>

\* in every step: where the build step is taken
C1_BuildStep ==
    buildRuns' # buildRuns =>
        /\ buildRuns' = buildRuns + 1
        /\ pc = "proceed_prompt"
        /\ answers'[M_proceed] = Append(answers[M_proceed], TRUE)
        /\ pc' = "terraform_prompt"

\* C1: the build step runs only in the step that answers "Proceed with
\* Packer template creation?" with yes; once it has run, "Proceed to
\* Terraform section?" is asked exactly once, and the run that reached the
\* build step reports COMPLETED if and only if that answer is yes.
C1_BuildAfterConfirmation == []C1_BuildState /\ [][C1_BuildStep]_vars

C1_Witness ==
    /\ pc = "done"
    /\ buildRuns = 1
    /\ answers[M_terraform] = <<TRUE>>
    /\ report = "COMPLETED"

\* C2, as claimed: a negative answer at any yes/no prompt ends the run with
\* the cancelled report: once some prompt has returned no, the run is over,
\* packer_section returned a false value and run() printed CANCELLED.
C2_AnyNoCancels ==
    \A m \in YesNoMessages :
        Declined(m) =>
            /\ pc = "done"
            /\ result \in {"False", "None"}
            /\ report = "CANCELLED"

\* C2, amended: a negative answer to "Save this configuration?", "Proceed
\* with Packer template creation?" or "Proceed to Terraform section?" ends
\* the run with the cancelled report and no further prompt; a negative
\* answer to "Do you want to modify any parameters?" does not end it: the
\* loaded configuration goes, unedited, to the build confirmation.
C2_NoCancelsExceptModify ==
    /\ \A m \in {M_save, M_proceed, M_terraform} :
          Declined(m) =>
              /\ pc = "done"
              /\ result = "False"
              /\ report = "CANCELLED"
              /\ answers[m] = <<FALSE>>
    /\ Declined(M_modify) =>
          /\ answers[M_modify] = <<FALSE>>
          /\ route = "unmodified"
          /\ asked[M_proceed] = 1
          /\ current_config = loaded
          /\ edits = 0
          /\ pc = "done" => Len(answers[M_proceed]) = 1

C2_Witness ==
    /\ answers[M_modify] = <<FALSE>>
    /\ answers[M_proceed] = <<FALSE>>
    /\ pc = "done"
    /\ report = "CANCELLED"

\* in every state: what has happened when a file was saved, or was not
C3_SaveState ==
    /\ saveCalls >= 1 =>
          (answers[M_save] = <<TRUE>> \/ selection = O_write_changes)
    /\ disk # disk0 => (saveCalls >= 1 /\ lastSaveOk /\ route \in {"new", "written"})
    /\ route = "run" =>
          /\ disk = disk0
          /\ saveCalls = 0
          /\ current_config.t = "dict"
          /\ DOMAIN current_config.d = DOMAIN loaded.d
          /\ \A k \in DOMAIN entered : current_config.d[k] = StrV(entered[k])
          /\ \A k \in DOMAIN loaded.d \ DOMAIN entered :
                PyStr(current_config.d[k]) = PyStr(loaded.d[k])

\* in every step: where save_config is called and a file changes
C3_SaveStep ==
    /\ saveCalls' # saveCalls =>
          \/ pc = "save_prompt" /\ answers'[M_save] = <<TRUE>>
          \/ pc = "decision" /\ selection' = O_write_changes
    /\ disk' # disk => saveCalls' = saveCalls + 1

\* C3: save_config is called only in the step that answers "Save this
\* configuration?" with yes or chooses "Write changes to config
\* permanently"; no other step changes a file; and after "Use changes only
\* for this run" the configuration at the build confirmation holds every
\* value typed in the session while the files are as they were at the start.
C3_SaveOnlyOnConfirmation == []C3_SaveState /\ [][C3_SaveStep]_vars

C3_Witness ==
    /\ route = "run"
    /\ pc = "proceed_prompt"
    /\ rounds = 1
    /\ K_memory_mb \in DOMAIN entered
    /\ entered[K_memory_mb] = <<"8">>
    /\ current_config.d[K_memory_mb] = StrV(<<"8">>)
    /\ LoadConfig(disk, config_path).value.d[K_memory_mb] = IntV(4096)

\* C4, as claimed: a failed save is not fatal and the run continues in
\* memory: whenever save_config has returned false, the run has gone on to
\* the "Proceed with Packer template creation?" confirmation.
C4_FailedSaveContinues ==
    (saveCalls >= 1 /\ ~lastSaveOk) =>
        /\ asked[M_proceed] = 1
        /\ pc \in {"proceed_prompt", "terraform_prompt", "done"}
        /\ pc = "done" => Len(answers[M_proceed]) = 1

\* C5: load_config of an absent or malformed file returns the empty
\* document and raises nothing; and when the path entered in
\* Build-from-existing-config is missing, or its document is empty, the
\* operation returns False and the run ends cancelled: nothing displayed,
\* no editing, no build confirmation.
C5_MissingOrEmptyConfigEndsRun ==
    /\ \A p \in DOMAIN disk :
          disk[p].kind \in {"absent", "malformed"} =>
              LoadConfig(disk, p) = [raised |-> FALSE, value |-> DictV(EmptyMap)]
    /\ (/\ config_path # <<>>
        /\ \/ disk0[config_path].kind \in {"absent", "malformed", "blank"}
           \/ DOMAIN disk0[config_path].entries = {}) =>
          /\ pc = "done"
          /\ result = "False"
          /\ report = "CANCELLED"
          /\ ~displayed
          /\ edits = 0
          /\ asked[M_modify] = 0
          /\ asked[M_decision] = 0
          /\ asked[M_proceed] = 0
          /\ buildRuns = 0

C5_Witness ==
    /\ config_path = OtherYaml
    /\ disk0[OtherYaml].kind = "malformed"
    /\ pc = "done"
    /\ result = "False"

\* C6: after "Discard changes" the configuration at the build confirmation,
\* which is current_config, is the document read from the file at
\* config_path: it equals what was loaded at first, holds none of the
\* values typed in the session, and no file was written.
C6_DiscardReloadsOriginal ==
    route = "discard" =>
        /\ disk = disk0
        /\ saveCalls = 0
        /\ disk[config_path].kind = "mapping"
        /\ current_config =
              DictV([k \in DOMAIN disk[config_path].entries |->
                        YamlLoadScalar(disk[config_path].entries[k])])
        /\ current_config = loaded
        /\ asked[M_proceed] = 1

C6_Witness ==
    /\ route = "discard"
    /\ pc = "proceed_prompt"
    /\ rounds = 1
    /\ K_memory_mb \in DOMAIN entered
    /\ entered[K_memory_mb] = <<"8">>
    /\ config.d[K_memory_mb] = StrV(<<"8">>)
    /\ current_config.d[K_memory_mb] = IntV(4096)

\* C7, as claimed: every value the user types for a key ending in _mb or
\* _gb, or for cpu_cores, in the wizard or in the editing loop, is stored as
\* an int when int() accepts it and as the typed string otherwise.
C7_NumericCoercionEverywhere ==
    \A k \in DOMAIN entered :
        (k \in DOMAIN config.d /\ IsNumericParam(k)) =>
            config.d[k] = IF ParseInt(entered[k]).ok
                          THEN IntV(ParseInt(entered[k]).val)
                          ELSE StrV(entered[k])

\* C8: prompt_choice returns only an element of the list it was given: it
\* returns exactly when the line read is a number n with
\* 1 <= n <= len(choices), and then returns choices[n-1] (here choices[n],
\* sequences being 1-based); any other line makes it read again; given an
\* empty list it never returns.
C8_ChoiceWithinOptions ==
    LET n == ParseInt(last_input)
        valid == n.ok /\ 1 <= n.val /\ n.val <= Len(choices)
    IN  /\ pc = "choice_returned" =>
              /\ valid
              /\ selection = choices[n.val]
              /\ \E i \in 1..Len(choices) : selection = choices[i]
        /\ (pc = "choice_call" /\ attempts > 0) => ~valid
        /\ choices = <<>> => pc = "choice_call"

C8_Witness ==
    /\ pc = "choice_returned"
    /\ attempts = MaxAttempts
    /\ choices = << <<"a">>, <<"b">> >>
    /\ last_input = <<" ", "2">>
    /\ selection = <<"b">>

\* the templates a directory listing shows: the stems of its *.json files
ListedTemplates ==
    IF templates_dir.exists
    THEN {Stem(f) : f \in {g \in templates_dir.files : EndsWith(g, S_json)}}
    ELSE {}

\* C9: Use-existing-template returns False without a prompt when there are
\* no templates; otherwise the template recorded as selected_template is
\* one of those listed, no file is written, the build step is not passed,
\* and the operation returns True exactly when "Proceed to Terraform
\* section?" is answered yes.
C9_UseExistingTemplate ==
    /\ (selection = O_use_existing_template /\ ListedTemplates = {}) =>
          /\ pc = "done"
          /\ result = "False"
          /\ asked = [m \in Messages |-> IF m = M_menu THEN 1 ELSE 0]
          /\ current_config = DictV(EmptyMap)
    /\ (selection = O_use_existing_template /\ ListedTemplates # {}) =>
          /\ pc = "template_choice"
          /\ asked[M_select_template] = 1
          /\ {choices[i] : i \in 1..Len(choices)} = ListedTemplates
    /\ route = "template" =>
          /\ DOMAIN current_config.d = {K_selected_template}
          /\ current_config.d[K_selected_template].t = "str"
          /\ current_config.d[K_selected_template].s \in ListedTemplates
          /\ disk = disk0
          /\ saveCalls = 0
          /\ buildRuns = 0
          /\ asked[M_proceed] = 0
          /\ asked[M_terraform] = 1
          /\ pc \in {"template_terraform", "done"}
          /\ pc = "done" =>
                /\ Len(answers[M_terraform]) = 1
                /\ result \in {"True", "False"}
                /\ result = "True" <=> answers[M_terraform] = <<TRUE>>

C9_Witness ==
    /\ route = "template"
    /\ pc = "done"
    /\ result = "True"
    /\ current_config.d[K_selected_template] = StrV(<<"b">>)

BaseNames ==
    {K_template_name, K_vcenter_host, K_vcenter_user, K_vcenter_password,
     K_vcenter_datacenter, K_vcenter_cluster, K_vcenter_datastore,
     K_vcenter_network, K_vcenter_folder, K_iso_datastore, K_iso_path,
     K_cpu_cores, K_memory_mb, K_disk_size_gb}

CatalogNames(kind) ==
    IF kind = S_nfs_server THEN BaseNames \cup {K_additional_disk_size_gb}
    ELSE BaseNames

OtherKinds == {S_k3s_node, <<"n", "f", "s">>, <<>>, <<"N", "F", "S", "-", "s", "e", "r", "v", "e", "r">>}

\* C10: the catalog of nfs-server is the base catalog plus the one entry
\* additional_disk_size_gb, that of any other kind is the base catalog; the
\* wizard prompts once for each entry of the chosen kind's catalog, and its
\* document always holds template_type, holds no key outside the catalog
\* and template_type, holds no parameter answered with an empty line, and
\* holds additional_disk_size_gb only when the kind is nfs-server.
C10_CatalogAndWizard ==
    /\ ParamNames(base_params) = BaseNames
    /\ Len(base_params) = Cardinality(BaseNames)
    /\ SubSeq(GetRequiredParameters(S_nfs_server), 1, Len(base_params)) = base_params
    /\ Len(GetRequiredParameters(S_nfs_server)) = Len(base_params) + 1
    /\ ParamNames(GetRequiredParameters(S_nfs_server)) =
          BaseNames \cup {K_additional_disk_size_gb}
    /\ \A kind \in OtherKinds : GetRequiredParameters(kind) = base_params
    /\ params # <<>> =>
          LET kind == config.d[K_template_type].s
              over == pc # "parameter"
          IN  /\ K_template_type \in DOMAIN config.d
              /\ kind \in {S_k3s_node, S_nfs_server}
              /\ ParamNames(params) = CatalogNames(kind)
              /\ Len(params) = Cardinality(CatalogNames(kind))
              /\ wizard_asked =
                    [i \in 1..(IF over THEN Len(params) ELSE param_i - 1) |->
                        params[i].param]
              /\ DOMAIN config.d \subseteq CatalogNames(kind) \cup {K_template_type}
              /\ DOMAIN config.d = {K_template_type} \cup DOMAIN entered
              /\ K_additional_disk_size_gb \in DOMAIN config.d => kind = S_nfs_server

C10_Witness ==
    /\ pc = "save_prompt"
    /\ config.d[K_template_type] = StrV(S_nfs_server)
    /\ DOMAIN config.d = {K_template_type, K_additional_disk_size_gb}
    /\ Len(wizard_asked) = Len(base_params) + 1

\* the line is white space from end to end
AllSpace(line) == \A i \in 1..Len(line) : IsSpace(line[i])

\* r is line without the white space at its two ends
IsTrimOf(r, line) ==
    /\ r # <<>> => ~IsSpace(r[1]) /\ ~IsSpace(r[Len(r)])
    /\ \E a, b \in 0..Len(line) :
          /\ a + b <= Len(line)
          /\ r = SubSeq(line, a + 1, Len(line) - b)
          /\ \A i \in 1..a : IsSpace(line[i])
          /\ \A i \in (Len(line) - b + 1)..Len(line) : IsSpace(line[i])

\* C11: prompt_value returns the default it was given when the line read is
\* empty once the white space at its ends is removed, and the line without
\* that white space otherwise; without a default an empty line returns the
\* empty string
C11_PromptValueResult ==
    pc = "value_returned" =>
        IF AllSpace(last_input)
        THEN prompt_result = (IF default_arg.none THEN <<>> ELSE default_arg.s)
        ELSE prompt_result # <<>> /\ IsTrimOf(prompt_result, last_input)

\* a line of white space only was answered with the default, not the line
C11_Witness ==
    /\ pc = "value_returned"
    /\ last_input = <<" ", "\t">>
    /\ default_arg = SomeStr(<<"d">>)
    /\ prompt_result = <<"d">>

\* the positions of the editing loop and of the menu that follows it
EditPositions == {"edit_name", "edit_value", "decision"}

\* in every state of an editing session: the keys are those of the document
\* loaded, a key that reads 'done' holds what was loaded, a value is asked
\* for an existing key only, and the loop was left on 'done'
C12_EditState ==
    /\ pc \in EditPositions =>
          /\ loaded.t = "dict"
          /\ DOMAIN config.d = DOMAIN loaded.d
          /\ \A k \in DOMAIN config.d :
                StrLower(k) = S_done => config.d[k] = loaded.d[k]
    /\ pc = "edit_value" =>
          /\ param_to_edit \in DOMAIN config.d
          /\ StrLower(param_to_edit) # S_done
    /\ pc = "decision" => StrLower(param_to_edit) = S_done

\* in every step of the loop: a name read changes no entry, ends the loop
\* exactly when it reads 'done' and asks for a value only when it is a key;
\* a value read replaces the entry of that key and no other
C12_EditStep ==
    /\ pc = "edit_name" =>
          /\ config' = config
          /\ pc' \in EditPositions
          /\ pc' = "decision" <=> StrLower(param_to_edit') = S_done
          /\ pc' = "edit_value" => param_to_edit' \in DOMAIN config.d
          /\ param_to_edit' \notin DOMAIN config.d /\ pc' # "decision" =>
                pc' = "edit_name" /\ edits' = edits /\ disk' = disk
    /\ pc = "edit_value" =>
          /\ pc' = "edit_name"
          /\ DOMAIN config'.d = DOMAIN config.d
          /\ \A k \in DOMAIN config.d \ {param_to_edit} :
                config'.d[k] = config.d[k]

\* C12: the editing loop never changes the key set of the configuration: a
\* name that is not a key leaves the document unchanged, an existing key has
\* only its own value replaced, no key is removed, and the loop ends only on
\* 'done' in any letter case, so that a key named 'done' is never edited
C12_EditingKeepsKeys == []C12_EditState /\ [][C12_EditStep]_vars

\* a document with a key 'done': another key was edited, 'done' was typed,
\* the loop ended and the key 'done' holds what was loaded
C12_Witness ==
    /\ pc = "decision"
    /\ param_to_edit = S_done
    /\ S_done \in DOMAIN config.d
    /\ config.d[S_done] = loaded.d[S_done]
    /\ edits >= 1
    /\ K_memory_mb \in DOMAIN entered
    /\ config.d[K_memory_mb] # loaded.d[K_memory_mb]

=============================================================================
